---------------------------- MODULE Spec2Model ----------------------------
(***************************************************************************)
(* A model of the USB audio pipeline of usb-video:                         *)
(*   - RingBuffer<T> (RingBuffer.h): the circular sample buffer;           *)
(*   - UsbAudioStreamer (UsbAudioStreamer.h/.cpp): the streamer lifecycle, *)
(*     the transfer slot pool and the render callback.                     *)
(***************************************************************************)
EXTENDS Integers, Sequences, FiniteSets, TLC

(***************************************************************************)
(* Bounds of the model.                                                    *)
(***************************************************************************)
\* Largest RingBuffer capacity explored by SpecRB.
MaxCap == 3
\* How far a write/read count may exceed the capacity.
MaxOver == 1
\* Largest RingBuffer capacity explored by the wraparound scenario.
MaxWrapCap == 8
\* Audio callbacks explored between two resets of event_loops.
MaxEventLoops == 1
\* Data-carrying transfer callbacks explored between two resets of usb_cb_counter.
MaxUsbCb == 1
\* Samples counted in currentSamplingFrequency before no further callback is explored.
MaxRate == 1
\* SpecFifo: the samples written to one buffer in all.
MaxStream == 6

\* Sample values a caller may write (0 is what the constructor's memset leaves).
Samples == {1, 2}
\* Content of caller memory that no copy has written.
Poison == -1

Min(a, b) == IF a < b THEN a ELSE b
Max(a, b) == IF a > b THEN a ELSE b

VARIABLES
  capacity_,   \* RingBuffer::capacity_
  readPos_,    \* RingBuffer::readPos_
  writePos_,   \* RingBuffer::writePos_
  buffer_,     \* RingBuffer::buffer_, a function 0..capacity_-1 -> sample
  last,        \* the last RingBuffer call: its arguments, return value, output
  ref,         \* reference FIFO of the wraparound scenario: a plain bounded queue
  wrapPc,      \* position in the wraparound scenario ("idle" outside it)
  state_,                \* UsbAudioStreamer::state_
  transfers_,            \* UsbAudioStreamer::transfers_: each slot's isSubmitted
  usb,                   \* the USB stack's view of each slot's transfer
  stopUsbAudioCapture_,  \* UsbAudioStreamer::stopUsbAudioCapture_
  streamerStats_,        \* UsbAudioStreamer::streamerStats_
  audioStream_,          \* UsbAudioStreamer::audioStream_ and the stream's state
  deviceHandle_,         \* UsbAudioStreamer::deviceHandle_ is not null
  config_,               \* UsbAudioStreamer::config_ is not null
  context_,              \* UsbAudioStreamer::context_
  claimedInterface_,     \* UsbAudioStreamer::claimedInterface_
  detachedInterface_,    \* UsbAudioStreamer::detachedInterface_
  ringBuffer_,           \* UsbAudioStreamer::ringBuffer_ is not null
  ctl,                   \* the control thread: where it is in connect/start/stop/disconnect
  rnd,                   \* the render thread: where it is in audioPlaybackCallback
  returned,              \* the last start()/stop() that returned, and its result
  teardown,              \* what the destructor has released, in order
  freed,                 \* the slots as they were when the destructor freed them
  built,                 \* the step the constructor failed at, "none" when it ran through
  alloc,                 \* the sizing scenario: parameters and what allocation computes from them
  starter,               \* a second control thread: where it is in its start()
  delivered,             \* the packets of the transfer whose callback ran last in this audio callback
  claimedNumber          \* the bInterfaceNumber libusb_claim_interface succeeded on, -1: none

ringVars == <<capacity_, readPos_, writePos_, buffer_>>
rbGhost == <<last, ref, wrapPc, alloc, starter, delivered>>
devVars == <<deviceHandle_, config_, context_, claimedInterface_, detachedInterface_, built,
            claimedNumber>>
stVars == <<state_, transfers_, usb, stopUsbAudioCapture_, streamerStats_, audioStream_,
            deviceHandle_, config_, context_, claimedInterface_, detachedInterface_,
            ringBuffer_, ctl, rnd, returned, teardown, freed, built, alloc, starter, delivered,
          claimedNumber>>
vars == <<capacity_, readPos_, writePos_, buffer_, last, ref, wrapPc,
          state_, transfers_, usb, stopUsbAudioCapture_, streamerStats_, audioStream_,
          deviceHandle_, config_, context_, claimedInterface_, detachedInterface_,
          ringBuffer_, ctl, rnd, returned, teardown, freed, built, alloc, starter, delivered,
          claimedNumber>>

(***************************************************************************)
(* RingBuffer.h                                                            *)
(***************************************************************************)
\* RingBuffer(int capacity): cursors at 0, storage zeroed by memset.
NewBuffer(capacity) == [i \in 0..(capacity - 1) |-> 0]

\* size(): (writePos_ + capacity_ - readPos_) % capacity_
SizeOf(r, w, c) == (w + c - r) % c
Size == SizeOf(readPos_, writePos_, capacity_)

\* The samples between the read and the write cursor, oldest first: what
\* successive reads return.
Content == [i \in 1..Size |-> buffer_[(readPos_ + i - 1) % capacity_]]

\* Element i (0-based) of caller memory given as a sequence; memory outside
\* the caller's array holds no sample.
At(data, i) == IF (i + 1) \in DOMAIN data THEN data[i + 1] ELSE Poison

\* One memcpy: n elements, buffer index bufAt, caller index dataAt.
Slice(bufAt, dataAt, n) == [bufAt |-> bufAt, dataAt |-> dataAt, n |-> n]

\* memcpy(&buffer_[s.bufAt], &data[s.dataAt], s.n * sizeof(T))
CopyIn(buf, data, s) ==
  [i \in DOMAIN buf |->
     IF s.bufAt <= i /\ i < s.bufAt + s.n
       THEN At(data, s.dataAt + (i - s.bufAt))
       ELSE buf[i]]

\* memcpy(&data[s.dataAt], &buffer_[s.bufAt], s.n * sizeof(T))
CopyOut(out, buf, s) ==
  [j \in DOMAIN out |->
     IF s.dataAt <= (j - 1) /\ (j - 1) < s.dataAt + s.n
          /\ (s.bufAt + (j - 1 - s.dataAt)) \in DOMAIN buf
       THEN buf[s.bufAt + (j - 1 - s.dataAt)]
       ELSE out[j]]

\* write, lines 44-46: the request is ignored.
WriteGuardLoose(null, len) == null \/ len < 0
WriteIgnored(null, len) == null \/ len <= 0

\* write, lines 50-53: a count above the capacity keeps the trailing samples.
TruncLen(len, c) == IF len > c THEN c ELSE len
TruncData(data, len, c) == IF len > c THEN SubSeq(data, len - c + 1, len) ELSE data

\* write, lines 56-64: the copies into the storage.
WriteSlicesOneCopy(w, len, c) == <<Slice(w, 0, len)>>
WriteSlices(w, len, c) ==
  LET start == w
      end   == (w + len) % c
  IN IF start < end
       THEN <<Slice(start, 0, len)>>
       ELSE LET first_slice == c - start
            IN <<Slice(start, 0, first_slice), Slice(0, first_slice, len - first_slice)>>

\* write, lines 66-69: the cursors after the copy.
WriteEnd(w, len, c) == (w + len) % c
WriteReadPosNoWrap(r, w, len, c) ==
  LET size == SizeOf(r, w, c)
  IN IF size + len > c THEN r + size + len ELSE r
WriteReadPos(r, w, len, c) ==
  LET size == SizeOf(r, w, c)
  IN IF size + len > c THEN (r + size + len) % c ELSE r

RECURSIVE ApplyIn(_, _, _)
ApplyIn(buf, data, slices) ==
  IF slices = <<>> THEN buf
  ELSE ApplyIn(CopyIn(buf, data, Head(slices)), data, Tail(slices))

RECURSIVE ApplyOut(_, _, _)
ApplyOut(out, buf, slices) ==
  IF slices = <<>> THEN out
  ELSE ApplyOut(CopyOut(out, buf, Head(slices)), buf, Tail(slices))

\* read, lines 74-77: nothing to do.
ReadIgnored(null, len, available) == available = 0 \/ null \/ len <= 0

\* read, lines 79-90: the copies out of the storage.
ReadSlicesOneCopy(r, to_copy, c) == <<Slice(r, 0, to_copy)>>
ReadSlices(r, to_copy, c) ==
  LET start == r
      end   == (r + to_copy) % c
  IN IF start < end
       THEN <<Slice(start, 0, to_copy)>>
       ELSE LET first_slice == c - start
            IN <<Slice(start, 0, first_slice), Slice(0, first_slice, to_copy - first_slice)>>

\* read, line 92: the read cursor after the copy.
ReadEndNoWrap(r, to_copy, c) == r + to_copy
ReadEnd(r, to_copy, c) == (r + to_copy) % c

\* The reference queue of the scenario: append, keep the newest c elements.
RefWrite(q, data, c) ==
  LET all == q \o data
  IN IF Len(all) > c THEN SubSeq(all, Len(all) - c + 1, Len(all)) ELSE all
\* The reference queue after n elements were taken from its head.
RefRead(q, n) == SubSeq(q, Min(n, Len(q)) + 1, Len(q))

\* The record kept of a call.
Call(op, null, len, data, avail, ret, out) ==
  [op |-> op, null |-> null, len |-> len, data |-> data,
   avail |-> avail, ret |-> ret, out |-> out]

\* A RingBuffer object, as the value of its four fields.
Ring(c, r, w, buf) == [capacity |-> c, readPos |-> r, writePos |-> w, buffer |-> buf]
ThisRing == Ring(capacity_, readPos_, writePos_, buffer_)

\* int write(T* data, int len): the object afterwards and the value returned.
WriteOn(rb, null, data, len) ==
  IF WriteIgnored(null, len)
    THEN [ring |-> rb, ret |-> 0]
    ELSE LET c == rb.capacity
             n == TruncLen(len, c)
             d == TruncData(data, len, c)
         IN [ring |-> Ring(c,
                           WriteReadPos(rb.readPos, rb.writePos, n, c),
                           WriteEnd(rb.writePos, n, c),
                           ApplyIn(rb.buffer, d, WriteSlices(rb.writePos, n, c))),
             ret |-> n]

\* int read(T* data, int len): the object afterwards, the value returned and
\* the caller's array, which has len elements, none written before the call.
ReadOn(rb, null, len) ==
  LET c == rb.capacity
      available == SizeOf(rb.readPos, rb.writePos, c)
      dest == [j \in 1..Max(len, 0) |-> Poison]
  IN IF ReadIgnored(null, len, available)
       THEN [ring |-> rb, ret |-> 0, out |-> dest]
       ELSE LET to_copy == Min(len, available)
            IN [ring |-> Ring(c, ReadEnd(rb.readPos, to_copy, c), rb.writePos, rb.buffer),
                ret |-> to_copy,
                out |-> ApplyOut(dest, rb.buffer, ReadSlices(rb.readPos, to_copy, c))]

\* The fields of the buffer become those of rb.
SetRing(rb) ==
  /\ capacity_' = rb.capacity
  /\ readPos_' = rb.readPos
  /\ writePos_' = rb.writePos
  /\ buffer_' = rb.buffer

\* A caller's write(data, len) on the buffer, recorded in last.
write(null, data, len) ==
  LET res == WriteOn(ThisRing, null, data, len)
  IN /\ SetRing(res.ring)
     /\ last' = Call("write", null, len, data, Size, res.ret, <<>>)

\* A caller's read(data, len) on the buffer, recorded in last.
read(null, len) ==
  LET res == ReadOn(ThisRing, null, len)
  IN /\ SetRing(res.ring)
     /\ last' = Call("read", null, len, <<>>, Size, res.ret, res.out)

(***************************************************************************)
(* UsbAudioStreamer.h: the object's fields as its member initialisers      *)
(* leave them.                                                             *)
(***************************************************************************)
\* ringBuffer_{std::make_unique<RingBufferPcm>(3072)}
DefaultCapacity == 3072
\* stop(): while (hasActiveTransfers() && tries++ < 5)
StopRetriesTwice == 5 + 5
StopRetries == 5

\* UsbAudioStreamerStats: the counters, whether t0_10_s is set, and the
\* 1-second rate meter of recordSamples.
ZeroStats ==
  [total_bytes |-> 0, usb_cb_counter |-> 0, player_cb_counter |-> 0,
   event_loops |-> 0, t0_10_s |-> FALSE,
   samplingFrequency |-> 0, currentSamplingFrequency |-> 0]

\* The control thread at pc, with stop()'s local tries and the state the
\* call it is in was made in.
Ctl(pc, tries, from) == [pc |-> pc, tries |-> tries, from |-> from]
CtlIdle == Ctl("idle", 0, "INITIAL")
\* The render thread at pc; in a transfer callback, the slot and the state it
\* read; whether the last callback notified stateChange_; the block rendered.
\* What an audio callback hands back: the block it filled for the numFrames
\* asked of it and its return value; NoBlock while none has returned.
BlockThenStop(numFrames, data) ==
  [numFrames |-> numFrames, data |-> data,
   result |-> IF \A k \in DOMAIN data : data[k] = 0
                THEN "AAUDIO_CALLBACK_RESULT_STOP"
                ELSE "AAUDIO_CALLBACK_RESULT_CONTINUE"]
Block(numFrames, data) ==
  [numFrames |-> numFrames, data |-> data, result |-> "AAUDIO_CALLBACK_RESULT_CONTINUE"]
NoBlock == [numFrames |-> 0, data |-> <<>>, result |-> "none"]
\* The render thread at pc, in the transfer callback of slot; the last transfer
\* callback had a transfer of the libusb status given and notified
\* stateChange_ or not.
Rnd(pc, slot, status, notified, out) ==
  [pc |-> pc, slot |-> slot, status |-> status, notified |-> notified, out |-> out]
RndIdle == Rnd("idle", 0, "none", FALSE, NoBlock)
\* The second control thread at pc of its start(); the outcome of its
\* startAudioPlayer; early: stop() had returned when it called start();
\* begun: stop() had been called when its start() returned val.
Starter(pc, outcome, early, begun, val) ==
  [pc |-> pc, outcome |-> outcome, early |-> early, begun |-> begun, val |-> val]
NoStarter == Starter("ready", "none", FALSE, FALSE, FALSE)
\* A start() or stop() that returned val, called in state from.
Ret(op, val, from) == [op |-> op, val |-> val, from |-> from]

\* The fields of an object no constructor body has run on.
FieldDefaults ==
  /\ state_ = "INITIAL"
  /\ transfers_ = <<>>
  /\ usb = <<>>
  /\ stopUsbAudioCapture_ = 0
  /\ streamerStats_ = ZeroStats
  /\ audioStream_ = "null"
  /\ deviceHandle_ = FALSE
  /\ config_ = FALSE
  /\ context_ = "uninitialized"
  /\ claimedInterface_ = -1
  /\ detachedInterface_ = -1
  /\ ringBuffer_ = TRUE
  /\ rnd = RndIdle
  /\ returned = Ret("none", FALSE, "INITIAL")
  /\ teardown = <<>>
  /\ freed = [done |-> FALSE, flags |-> <<>>, usb |-> <<>>]
  /\ built = "pending"
  /\ claimedNumber = -1

\* No streamer is part of the run.
NoStreamer == FieldDefaults /\ ctl = Ctl("absent", 0, "INITIAL")

\* hasActiveTransfers()
hasActiveTransfers(slots) == \E i \in DOMAIN slots : slots[i]

(***************************************************************************)
(* UsbAudioStreamer.cpp: construction.                                     *)
(***************************************************************************)
\* What the device and the audio output negotiate: the IN endpoint's
\* wMaxPacketSize, the constructor's subFrameSize and channelCount, and the
\* stream's framesPerBurst and bufferCapacityInFrames.
Negotiated ==
  [maxPacketSize |-> 2, subFrameSize |-> 2, channelCount |-> 1,
   framesPerBurst |-> 1, bufferCapacityInFrames |-> 2]

\* The streaming interface of the configuration descriptor: its position in
\* config_->interface[] and its bInterfaceNumber.
StreamingInterface == [index |-> 1, number |-> 1]

\* int arithmetic as the build computes it: framesPerBurst_ and
\* bufferCapacityInFrames_ are int32_t (UsbAudioStreamer.h, lines 159-160),
\* maxPacketSize_, subFrameSize_ and channelCount_ promote to int, and the
\* locals of lines 330-335 are int. A sum or product outside the range of
\* int wraps modulo 2^32, the outcome of the two's-complement targets the
\* library is built for; a quotient truncates toward zero.
INT_MAX == 2147483647
INT_MIN == (-INT_MAX) - 1
Add32(a, b) ==
  IF a > 0 /\ b > 0 /\ a > INT_MAX - b THEN (a + INT_MIN) + (b + INT_MIN)
  ELSE IF a < 0 /\ b < 0 /\ a < INT_MIN - b THEN (a - INT_MIN) + (b - INT_MIN)
  ELSE a + b
RECURSIVE Mul32(_, _)
Mul32(a, b) ==
  IF b = 0 THEN 0
  ELSE LET half == Mul32(a, b \div 2)
           twice == Add32(half, half)
       IN IF b % 2 = 1 THEN Add32(twice, a) ELSE twice
Div32(a, b) ==
  IF a >= 0 THEN a \div b
  ELSE LET m == -(a + 1)
       IN (-(m \div b)) - (IF m % b = b - 1 THEN 1 ELSE 0)

\* allocateTransferRequests, lines 330-336.
computed_num_packets_floor(p) ==
  (p.framesPerBurst * p.subFrameSize * p.channelCount) \div p.maxPacketSize
bytes_per_burst(p) == Mul32(Mul32(p.framesPerBurst, p.subFrameSize), p.channelCount)
computed_num_packets(p) ==
  Div32(Add32(Add32(bytes_per_burst(p), p.maxPacketSize), -1), p.maxPacketSize)
num_packets(p) == Max(2, computed_num_packets(p))
buffer_size(p) == Mul32(p.maxPacketSize, num_packets(p))
computed_num_transfers(p) ==
  Div32(Add32(Add32(p.bufferCapacityInFrames, p.framesPerBurst), -1), p.framesPerBurst)
num_transfers(p) == Max(2, computed_num_transfers(p))
ring_buffer_capacity(p) == Div32(Mul32(buffer_size(p), num_transfers(p)), p.subFrameSize)

\* The constructor's steps that can fail, in order; "none": all succeed.
\*   init        libusb_init                          (logged, not returned on)
\*   set_option  libusb_set_option(LOG_LEVEL)         (return)
\*   wrap        libusb_wrap_sys_device               (return)
\*   config      libusb_get_active_config_descriptor  (return)
\*   builder     AAudio_createStreamBuilder           (ERROR, return)
\*   resolve     no streaming interface with an IN endpoint (ERROR, return)
\*   detach      libusb_detach_kernel_driver          (ERROR, return)
\*   claim       libusb_claim_interface               (ERROR, return)
\*   set_alt     libusb_set_interface_alt_setting     (ERROR, return)
ConstructorSteps ==
  <<"init", "set_option", "wrap", "config", "builder", "resolve", "detach",
    "claim", "set_alt", "none">>
FailPoints == {ConstructorSteps[i] : i \in DOMAIN ConstructorSteps}
StepIndex(step) == CHOOSE i \in DOMAIN ConstructorSteps : ConstructorSteps[i] = step
\* The constructor failing at fail got past step.
Past(fail, step) == StepIndex(fail) > StepIndex(step)

\* The state the constructor leaves when it fails at fail.
ConstructedState(fail) ==
  IF fail = "none" THEN "READY_TO_START"
  ELSE IF Past(fail, "config") THEN "ERROR"
  ELSE "INITIAL"

\* The slots in transfers_ after the constructor: allocateTransferRequests is
\* its last call, line 246, after every return on failure, and n of its
\* libusb_alloc_transfer calls succeed.
AllocatedSlotsAnyway(fail, n) == n
AllocatedSlots(fail, n) == IF fail = "none" THEN n ELSE 0

\* UsbAudioStreamer::UsbAudioStreamer with resolveAudioInterface and
\* allocateTransferRequests: it fails at fail; kernel: a kernel driver is
\* active on the interface; n of the num_transfers libusb_alloc_transfer calls
\* succeed. A libusb_init that fails leaves context_ uninitialised, and the
\* libusb_set_option on it is taken to fail.
ConstructorOn(iface, fail, kernel, n) ==
  /\ context_' = IF fail = "init" THEN "garbage" ELSE "valid"
  /\ deviceHandle_' = Past(fail, "wrap")
  /\ config_' = Past(fail, "config")
  /\ audioStream_' = IF Past(fail, "builder") THEN "open" ELSE "null"
  /\ detachedInterface_' = IF kernel /\ Past(fail, "detach") THEN iface.number ELSE -1
  /\ claimedNumber' = IF Past(fail, "claim") THEN iface.number ELSE -1
  /\ claimedInterface_' = IF Past(fail, "claim") THEN iface.index ELSE -1
  /\ IF fail = "none" /\ capacity_ # ring_buffer_capacity(Negotiated)
       THEN SetRing(Ring(ring_buffer_capacity(Negotiated), 0, 0,
                         NewBuffer(ring_buffer_capacity(Negotiated))))
       ELSE UNCHANGED ringVars
  /\ transfers_' = [i \in 1..AllocatedSlots(fail, n) |-> FALSE]
  /\ usb' = [i \in 1..AllocatedSlots(fail, n) |-> "idle"]
  /\ built' = fail
  /\ state_' = ConstructedState(fail)
Constructor(fail, kernel, n) == ConstructorOn(StreamingInterface, fail, kernel, n)

\* connectUsbAudioStreamingNative: streamer_ = make_unique<UsbAudioStreamer>(..)
Connect ==
  /\ ctl.pc = "new"
  /\ \E fail \in FailPoints, kernel \in BOOLEAN, n \in 0..num_transfers(Negotiated) :
       /\ (fail = "detach" => kernel)
       /\ Constructor(fail, kernel, n)
  /\ ctl' = CtlIdle
  /\ UNCHANGED <<stopUsbAudioCapture_, streamerStats_, ringBuffer_, rnd, returned,
                 teardown, freed, rbGhost>>

(***************************************************************************)
(* UsbAudioStreamer.cpp: start().                                          *)
(***************************************************************************)
\* start(), lines 253-256: the call is refused.
StartRefusedInError(state) == state \notin {"READY_TO_START", "ERROR"}
StartRefused(state) == state # "READY_TO_START"

\* start(), lines 258-263: the statistics after the reset.
ResetStats(stats) ==
  [stats EXCEPT !.t0_10_s = FALSE, !.total_bytes = 0, !.player_cb_counter = 0,
                !.usb_cb_counter = 0, !.event_loops = 0]

\* libusb_submit_transfer can accept slot i: the device handle is open and
\* the transfer is not already with the USB stack.
CanSubmit(i) == deviceHandle_ /\ usb[i] = "idle"

\* submitTransferRequests, lines 302-305: the flags it leaves, where accepted
\* tells for each slot whether libusb_submit_transfer returned LIBUSB_SUCCESS.
SubmittedOrKept(slots, accepted) == [i \in DOMAIN slots |-> slots[i] \/ accepted[i]]
Submitted(slots, accepted) == [i \in DOMAIN slots |-> accepted[i]]

\* submitTransferRequests, lines 307-319: the result for the flags left.
SubmitSucceededAlways(slots) == TRUE
SubmitSucceeded(slots) == Cardinality({i \in DOMAIN slots : slots[i]}) # 0

\* startUsbAudioStreamingNative: streamer_->start() is entered.
StartEnter ==
  /\ ctl.pc = "idle"
  /\ ctl' = Ctl("start", 0, state_)
  /\ UNCHANGED <<state_, transfers_, usb, stopUsbAudioCapture_, streamerStats_,
                 audioStream_, devVars, ringBuffer_, rnd, returned, teardown, freed>>
  /\ UNCHANGED <<ringVars, rbGhost>>

\* start(), lines 253-257.
StartCheck ==
  /\ ctl.pc = "start"
  /\ IF StartRefused(state_)
       THEN /\ returned' = Ret("start", FALSE, state_)
            /\ ctl' = CtlIdle
            /\ UNCHANGED state_
       ELSE /\ state_' = "STARTING"
            /\ ctl' = Ctl("start_submit", 0, state_)
            /\ UNCHANGED returned
  /\ UNCHANGED <<transfers_, usb, stopUsbAudioCapture_, streamerStats_,
                 audioStream_, devVars, ringBuffer_, rnd, teardown, freed>>
  /\ UNCHANGED <<ringVars, rbGhost>>

\* start(), lines 258-268, with submitTransferRequests: every slot is
\* submitted, and the USB stack accepts any of those it can.
StartSubmit ==
  /\ ctl.pc = "start_submit"
  /\ streamerStats_' = ResetStats(streamerStats_)
  /\ stopUsbAudioCapture_' = 0
  /\ \E accepted \in [DOMAIN transfers_ -> BOOLEAN] :
       /\ \A i \in DOMAIN transfers_ : accepted[i] => CanSubmit(i)
       /\ transfers_' = Submitted(transfers_, accepted)
       /\ usb' = [i \in DOMAIN usb |-> IF accepted[i] THEN "inflight" ELSE usb[i]]
       /\ IF SubmitSucceeded(transfers_')
            THEN /\ ctl' = Ctl("start_audio", 0, ctl.from)
                 /\ UNCHANGED <<state_, returned>>
            ELSE /\ state_' = "ERROR"
                 /\ returned' = Ret("start", FALSE, ctl.from)
                 /\ ctl' = CtlIdle
  /\ UNCHANGED <<audioStream_, devVars, ringBuffer_, rnd, teardown, freed>>
  /\ UNCHANGED <<ringVars, rbGhost>>

\* What startAudioPlayer and the wait that follows it can come to:
\*   request_failed  AAudioStream_requestStart fails;
\*   unconfirmed     the stream does not report STARTED in time;
\*   wait_failed     start()'s own AAudioStream_waitForStateChange fails;
\*   started         the stream is started and both waits succeed.
StartAudioOutcomes == {"request_failed", "unconfirmed", "wait_failed", "started"}

\* start(), lines 270-290: the state start() ends in.
StartedStateKept(outcome) == IF outcome = "started" THEN "STARTED" ELSE "STARTING"
StartedState(outcome) == IF outcome = "started" THEN "STARTED" ELSE "ERROR"

\* start(), lines 270-290, with startAudioPlayer. A stream whose start was
\* requested and not confirmed may or may not be running afterwards.
StartAudio ==
  /\ ctl.pc = "start_audio"
  /\ \E outcome \in StartAudioOutcomes :
       /\ (audioStream_ = "null" => outcome = "request_failed")
       /\ audioStream_' \in
            CASE outcome = "request_failed" -> {audioStream_}
              [] outcome = "unconfirmed" -> {audioStream_, "started"}
              [] OTHER -> {"started"}
       /\ state_' = StartedState(outcome)
       /\ returned' = Ret("start", outcome = "started", ctl.from)
  /\ ctl' = CtlIdle
  /\ UNCHANGED <<transfers_, usb, stopUsbAudioCapture_, streamerStats_,
                 devVars, ringBuffer_, rnd, teardown, freed>>
  /\ UNCHANGED <<ringVars, rbGhost>>

(***************************************************************************)
(* UsbAudioStreamer.cpp: stop().                                           *)
(***************************************************************************)
\* What stopAudioPlayer can come to:
\*   request_failed  AAudioStream_requestStop fails;
\*   unconfirmed     the stream does not report STOPPED in time;
\*   stopped         the stream reports STOPPED.
StopAudioOutcomes == {"request_failed", "unconfirmed", "stopped"}

\* stop(), lines 390-397: the state stop() ends in.
StoppedStateKept(active, playerStopped, state) ==
  IF active \/ ~playerStopped THEN state ELSE "READY_TO_START"
StoppedState(active, playerStopped, state) ==
  IF active \/ ~playerStopped THEN "ERROR" ELSE "READY_TO_START"

\* stopUsbAudioStreamingNative: streamer_->stop(), lines 383-384.
StopCall ==
  /\ ctl.pc = "idle"
  /\ state_' = "STOPPING"
  /\ ctl' = Ctl("stop_wait", 0, state_)
  /\ UNCHANGED <<transfers_, usb, stopUsbAudioCapture_, streamerStats_,
                 audioStream_, devVars, ringBuffer_, rnd, returned, teardown, freed>>
  /\ UNCHANGED <<ringVars, rbGhost>>

\* stop(), lines 385-388: one evaluation of the loop condition and, when it
\* holds, one stateChange_.wait_for, which a notification or its timeout ends.
StopWait ==
  /\ ctl.pc = "stop_wait"
  /\ IF hasActiveTransfers(transfers_)
       THEN IF ctl.tries < StopRetries
              THEN ctl' = Ctl("stop_wait", ctl.tries + 1, ctl.from)
              ELSE ctl' = Ctl("stop_flag", ctl.tries + 1, ctl.from)
       ELSE ctl' = Ctl("stop_flag", ctl.tries, ctl.from)
  /\ UNCHANGED <<state_, transfers_, usb, stopUsbAudioCapture_, streamerStats_,
                 audioStream_, devVars, ringBuffer_, rnd, returned, teardown, freed>>
  /\ UNCHANGED <<ringVars, rbGhost>>

\* stop(), line 389.
StopFlag ==
  /\ ctl.pc = "stop_flag"
  /\ stopUsbAudioCapture_' = 1
  /\ ctl' = Ctl("stop_finish", ctl.tries, ctl.from)
  /\ UNCHANGED <<state_, transfers_, usb, streamerStats_,
                 audioStream_, devVars, ringBuffer_, rnd, returned, teardown, freed>>
  /\ UNCHANGED <<ringVars, rbGhost>>

\* stop(), line 390, left operand: the last look at the slots. When one is
\* still in flight stopAudioPlayer is not called and lines 391-393 run.
StopFinish ==
  /\ ctl.pc = "stop_finish"
  /\ IF hasActiveTransfers(transfers_)
       THEN /\ state_' = StoppedState(TRUE, FALSE, state_)
            /\ returned' = Ret("stop", FALSE, ctl.from)
            /\ ctl' = CtlIdle
       ELSE /\ ctl' = Ctl("stop_audio", ctl.tries, ctl.from)
            /\ UNCHANGED <<state_, returned>>
  /\ UNCHANGED <<transfers_, usb, stopUsbAudioCapture_, streamerStats_,
                 audioStream_, devVars, ringBuffer_, rnd, teardown, freed>>
  /\ UNCHANGED <<ringVars, rbGhost>>

\* stop(), line 390, right operand, to line 397: stopAudioPlayer and the
\* state it leads to. The stream reports STOPPED only once its data callback
\* has returned; a stream whose stop was requested and not confirmed may or
\* may not be running afterwards.
StopAudio ==
  /\ ctl.pc = "stop_audio"
  /\ \E outcome \in StopAudioOutcomes :
       /\ (audioStream_ = "null" => outcome = "request_failed")
       /\ (outcome = "stopped" => rnd.pc = "idle")
       /\ audioStream_' \in
            CASE outcome = "request_failed" -> {audioStream_}
              [] outcome = "unconfirmed" ->
                   {audioStream_} \cup (IF rnd.pc = "idle" THEN {"stopped"} ELSE {})
              [] OTHER -> {"stopped"}
       /\ state_' = StoppedState(FALSE, outcome = "stopped", state_)
       /\ returned' = Ret("stop", outcome = "stopped", ctl.from)
  /\ ctl' = CtlIdle
  /\ UNCHANGED <<transfers_, usb, stopUsbAudioCapture_, streamerStats_,
                 devVars, ringBuffer_, rnd, teardown, freed>>
  /\ UNCHANGED <<ringVars, rbGhost>>

(***************************************************************************)
(* UsbAudioStreamer.cpp: ~UsbAudioStreamer().                              *)
(***************************************************************************)
\* One step of the teardown, with its argument and the state it ran in.
Step(step, arg, state) == [step |-> step, arg |-> arg, state |-> state]

\* ~UsbAudioStreamer, lines 37-40.
CloseAudio(stream, state) ==
  IF stream # "null" THEN <<Step("close_audio", 0, state)>> ELSE <<>>

\* ~UsbAudioStreamer, lines 44-51.
ReleaseInterface(handle, claimed, state) ==
  IF handle /\ claimed # -1 THEN <<Step("release_interface", claimed, state)>> ELSE <<>>

\* ~UsbAudioStreamer, lines 53-60.
AttachKernelDriver(detached, state) ==
  IF detached # -1 THEN <<Step("attach_kernel_driver", detached, state)>> ELSE <<>>

\* ~UsbAudioStreamer, lines 62-66.
CloseDevice(handle, state) ==
  IF handle THEN <<Step("close_device", 0, state)>> ELSE <<>>

\* ~UsbAudioStreamer, lines 71-74.
FreeConfig(config, state) ==
  IF config THEN <<Step("free_config", 0, state)>> ELSE <<>>

\* ~UsbAudioStreamer, lines 76-79. A context_ that libusb_init never set is
\* an indeterminate pointer: the test may go either way.
ExitContext(context, state) ==
  IF context = "valid"
    THEN {<<Step("exit_context", 0, state)>>}
    ELSE {<<Step("exit_context", 0, state)>>, <<>>}

\* disconnectUsbAudioStreamingNative: streamer_ = nullptr runs the destructor,
\* lines 37-42. AAudioStream_close returns once the data callback is not
\* running, and the callback does not run again.
Disconnect ==
  /\ ctl.pc = "idle"
  /\ (audioStream_ # "null" => rnd.pc = "idle")
  /\ teardown' = CloseAudio(audioStream_, state_)
  /\ audioStream_' = "null"
  /\ state_' = "DESTROYING"
  /\ ctl' = Ctl("release", 0, state_)
  /\ UNCHANGED <<transfers_, usb, stopUsbAudioCapture_, streamerStats_,
                 devVars, ringBuffer_, rnd, returned, freed>>
  /\ UNCHANGED <<ringVars, rbGhost>>

\* ~UsbAudioStreamer, lines 44-66.
DestructorRelease ==
  /\ ctl.pc = "release"
  /\ teardown' = teardown
                 \o ReleaseInterface(deviceHandle_, claimedInterface_, state_)
                 \o AttachKernelDriver(detachedInterface_, state_)
                 \o CloseDevice(deviceHandle_, state_)
  /\ deviceHandle_' = FALSE
  /\ ctl' = Ctl("free", 0, ctl.from)
  /\ UNCHANGED <<state_, transfers_, usb, stopUsbAudioCapture_, streamerStats_,
                 audioStream_, config_, context_, claimedInterface_,
                 detachedInterface_, built, claimedNumber, ringBuffer_, rnd, returned, freed>>
  /\ UNCHANGED <<ringVars, rbGhost>>

\* ~UsbAudioStreamer, lines 69-84. transfers_.clear() runs ~TransferUserData
\* and libusb_free_transfer on every slot, whatever the USB stack is doing
\* with it; freed keeps what each slot was when that happened.
DestructorFree ==
  /\ ctl.pc = "free"
  /\ freed' = [done |-> TRUE, flags |-> transfers_, usb |-> usb]
  /\ transfers_' = <<>>
  /\ usb' = <<>>
  /\ \E exit \in ExitContext(context_, state_) :
       teardown' = teardown
                   \o <<Step("free_transfers", 0, state_)>>
                   \o FreeConfig(config_, state_)
                   \o exit
                   \o <<Step("release_ring", 0, state_)>>
  /\ ringBuffer_' = FALSE
  /\ state_' = "DESTROYED"
  /\ ctl' = Ctl("gone", 0, ctl.from)
  /\ UNCHANGED <<stopUsbAudioCapture_, streamerStats_, audioStream_, devVars,
                 rnd, returned>>
  /\ UNCHANGED <<ringVars, rbGhost>>

(***************************************************************************)
(* The USB stack, and UsbAudioStreamer.cpp: audioPlaybackCallback and      *)
(* transferCallback, which run on the audio output's callback thread.      *)
(***************************************************************************)
\* The USB stack finishes a transfer it holds: its completion is pending
\* until libusb's event handling runs the callback.
UsbComplete ==
  /\ \E i \in DOMAIN usb :
       /\ usb[i] = "inflight"
       /\ usb' = [usb EXCEPT ![i] = "done"]
  /\ UNCHANGED <<state_, transfers_, stopUsbAudioCapture_, streamerStats_,
                 audioStream_, devVars, ringBuffer_, ctl, rnd, returned,
                 teardown, freed>>
  /\ UNCHANGED <<ringVars, rbGhost>>

\* An isochronous packet as the callback sees it: its status, its
\* actual_length in bytes and the 16-bit samples of its payload.
Packet(status, data) ==
  [status |-> status, actual_length |-> 2 * Len(data), data |-> data]

\* The packets of the transfers the device delivers: all good, one failed,
\* all empty, and more bytes than maxPacketSize for every packet.
Deliveries ==
  { <<Packet("completed", <<1>>), Packet("completed", <<2>>)>>,
    <<Packet("error", <<1>>), Packet("completed", <<2>>)>>,
    <<Packet("completed", <<>>), Packet("completed", <<>>)>>,
    <<Packet("completed", <<1, 2>>), Packet("completed", <<2, 1>>)>> }

\* Whether a second has gone by since t0_1_s, and ten seconds since t0_10_s,
\* when a transfer callback looks at the clock: the runs explored are shorter.
SecondGoesBy == {FALSE}
TenSecondsGoBy == {FALSE}

\* The frame counts the audio output asks for in the runs explored: a block
\* of two frames meets a buffer that holds less and one that holds enough.
NumFrames == {2}

\* transferCallback, lines 506-526: the ring and len after the packet loop.
RECURSIVE PacketLoopAnyStatus(_, _, _)
PacketLoopAnyStatus(rb, len, packets) ==
  IF packets = <<>> THEN [ring |-> rb, len |-> len]
  ELSE LET pack == Head(packets)
       IN PacketLoopAnyStatus(WriteOn(rb, FALSE, pack.data, pack.actual_length \div 2).ring,
                              len + pack.actual_length, Tail(packets))
RECURSIVE PacketLoop(_, _, _)
PacketLoop(rb, len, packets) ==
  IF packets = <<>> THEN [ring |-> rb, len |-> len]
  ELSE LET pack == Head(packets)
           dataSize == pack.actual_length \div 2
       IN IF pack.status # "completed"
            THEN PacketLoop(rb, len, Tail(packets))
            ELSE PacketLoop(WriteOn(rb, FALSE, pack.data, dataSize).ring,
                            len + pack.actual_length, Tail(packets))

\* samplesFromByteCount, lines 400-402.
samplesFromByteCount(byteCount) ==
  (byteCount \div Negotiated.channelCount) \div Negotiated.subFrameSize

\* UsbAudioStreamerStats::recordSamples, UsbAudioStreamer.h lines 59-66;
\* second tells whether a second has gone by since t0_1_s.
recordSamples(stats, samples, second) ==
  IF second
    THEN [stats EXCEPT !.samplingFrequency = stats.currentSamplingFrequency + samples,
                       !.currentSamplingFrequency = 0]
    ELSE [stats EXCEPT !.currentSamplingFrequency = @ + samples]

\* transferCallback, lines 531-533.
RecordLen(stats, len, second) ==
  IF len > 0 THEN recordSamples(stats, samplesFromByteCount(len), second) ELSE stats

\* transferCallback, lines 535-543: t0_10_s is TRUE once it holds a time.
WindowOpen(stats) ==
  IF ~stats.t0_10_s
    THEN [stats EXCEPT !.t0_10_s = TRUE, !.total_bytes = 0,
                       !.player_cb_counter = 0, !.usb_cb_counter = 0]
    ELSE stats

\* transferCallback, lines 544-560; elapsed tells whether ten seconds have
\* gone by since t0_10_s.
WindowCount(stats, len, elapsed) ==
  IF elapsed
    THEN [stats EXCEPT !.total_bytes = 0, !.player_cb_counter = 0,
                       !.usb_cb_counter = 0, !.event_loops = 0]
    ELSE [stats EXCEPT !.total_bytes = @ + len, !.usb_cb_counter = @ + 1]

\* transferCallback, lines 562-574: the transfer is dropped, not resubmitted.
TooLongForBuffer(len, packets) == len > buffer_size(Negotiated) * Len(packets)
TooLong(len, packets) == len > Negotiated.maxPacketSize * Len(packets)

\* audioPlaybackCallback, lines 418-431, up to libusb's check of the
\* completed flag it was handed, stopUsbAudioCapture_: when the flag is set
\* no event is handled.
audioPlaybackCallbackBegin ==
  /\ rnd.pc = "idle"
  /\ audioStream_ = "started"
  /\ streamerStats_.event_loops < MaxEventLoops
  /\ streamerStats_' = [streamerStats_ EXCEPT !.event_loops = @ + 1]
  /\ rnd' = Rnd(IF stopUsbAudioCapture_ # 0 THEN "read" ELSE "pump", 0, "none", FALSE, NoBlock)
  /\ UNCHANGED <<state_, transfers_, usb, stopUsbAudioCapture_, audioStream_,
                 devVars, ringBuffer_, ctl, returned, teardown, freed>>
  /\ UNCHANGED <<ringVars, rbGhost>>

\* transferCallback, lines 484-504: the callback goes on to the packets of
\* its transfer; lost is the status LIBUSB_TRANSFER_NO_DEVICE.
ProceedsWhileDestroying(lost, state) == ~lost /\ state # "STOPPING"
ProceedsWhenLost(lost, state) == state \notin {"STOPPING", "DESTROYING", "DESTROYED"}
Proceeds(lost, state) ==
  ~lost /\ state \notin {"STOPPING", "DESTROYING", "DESTROYED"}

\* transferCallback, lines 491-498: stateChange_ is notified.
NotifiesWhileActive(lost, state, slots) == ~lost /\ state = "STOPPING"
Notifies(lost, state, slots) ==
  ~lost /\ state = "STOPPING" /\ ~hasActiveTransfers(slots)

\* The libusb status of a transfer as far as the callback tells them apart.
Status(lost) == IF lost THEN "LIBUSB_TRANSFER_NO_DEVICE" ELSE "other"

\* transferCallback, lines 483-504, run by libusb's event handling for a
\* finished transfer.
transferCallbackBegin ==
  /\ rnd.pc = "pump"
  /\ \E i \in DOMAIN usb, lost \in BOOLEAN :
       /\ usb[i] = "done"
       /\ usb' = [usb EXCEPT ![i] = "idle"]
       /\ transfers_' = [transfers_ EXCEPT ![i] = FALSE]
       /\ IF Proceeds(lost, state_)
            THEN /\ streamerStats_.usb_cb_counter < MaxUsbCb
                 /\ streamerStats_.currentSamplingFrequency < MaxRate
                 /\ rnd' = Rnd("cb", i, Status(lost), FALSE, NoBlock)
            ELSE rnd' = Rnd("pump", 0, Status(lost),
                            Notifies(lost, state_, transfers_'), NoBlock)
  /\ UNCHANGED <<state_, stopUsbAudioCapture_, streamerStats_, audioStream_,
                 devVars, ringBuffer_, ctl, returned, teardown, freed>>
  /\ UNCHANGED <<ringVars, rbGhost>>

\* transferCallback, lines 506-583: the packet loop, the statistics and the
\* resubmission, which the USB stack accepts or refuses.
transferCallbackFinish ==
  /\ rnd.pc = "cb"
  /\ \E packets \in Deliveries, second \in SecondGoesBy, elapsed \in TenSecondsGoBy,
        accepted \in BOOLEAN :
       LET loop == PacketLoop(ThisRing, 0, packets)
           opened == WindowOpen(RecordLen(streamerStats_, loop.len, second))
       IN /\ (second => loop.len > 0)
          /\ (elapsed => streamerStats_.t0_10_s)
          /\ delivered' = packets
          /\ SetRing(loop.ring)
          /\ streamerStats_' = WindowCount(opened, loop.len, elapsed)
          /\ IF TooLong(loop.len, packets)
               THEN /\ ~accepted
                    /\ UNCHANGED <<transfers_, usb>>
               ELSE /\ (accepted => CanSubmit(rnd.slot))
                    /\ transfers_' = [transfers_ EXCEPT ![rnd.slot] = accepted]
                    /\ usb' = [usb EXCEPT ![rnd.slot] =
                                 IF accepted THEN "inflight" ELSE @]
  /\ rnd' = Rnd("pump", 0, rnd.status, FALSE, NoBlock)
  /\ UNCHANGED <<state_, stopUsbAudioCapture_, audioStream_, devVars,
                 ringBuffer_, ctl, returned, teardown, freed>>
  /\ UNCHANGED <<last, ref, wrapPc, alloc, starter>>

\* audioPlaybackCallback, line 424.
sizeToRead(numFrames) == Negotiated.channelCount * numFrames

\* bytesInAudioFrames, UsbAudioStreamer.h lines 126-128.
bytesInAudioFrames(numFrames) ==
  numFrames * Negotiated.channelCount * Negotiated.subFrameSize

\* audioPlaybackCallback, lines 436-437: memset(audioData, 0, bytesToRead),
\* as the 16-bit samples of the block it zeroes.
SilenceOfSizeToRead(numFrames) == [k \in 1..(sizeToRead(numFrames) \div 2) |-> 0]
Silence(numFrames) == [k \in 1..(bytesInAudioFrames(numFrames) \div 2) |-> 0]

\* audioPlaybackCallback, lines 428-449: libusb_handle_events_timeout_completed
\* returns, after the callbacks it ran or on its timeout, and the block is
\* filled; rnd.out is the block handed back.
audioPlaybackCallbackEnd ==
  /\ rnd.pc \in {"pump", "read"}
  /\ streamerStats_' = [streamerStats_ EXCEPT !.player_cb_counter = @ + 1]
  /\ \E numFrames \in NumFrames :
       IF Size < sizeToRead(numFrames)
         THEN /\ rnd' = Rnd("idle", 0, "none", rnd.notified, Block(numFrames, Silence(numFrames)))
              /\ UNCHANGED ringVars
         ELSE LET movedData == ReadOn(ThisRing, FALSE, sizeToRead(numFrames))
              IN /\ SetRing(movedData.ring)
                 /\ rnd' = Rnd("idle", 0, "none", rnd.notified, Block(numFrames, movedData.out))
  /\ delivered' = <<>>
  /\ UNCHANGED <<state_, transfers_, usb, stopUsbAudioCapture_, audioStream_,
                 devVars, ringBuffer_, ctl, returned, teardown, freed>>
  /\ UNCHANGED <<last, ref, wrapPc, alloc, starter>>

(***************************************************************************)
(* SpecRB: a RingBuffer of any capacity up to MaxCap under any calls.      *)
(***************************************************************************)
\* Outside the sizing scenario.
NoSizing == [pc |-> "idle"]

NoCall == Call("new", FALSE, 0, <<>>, 0, 0, <<>>)

InitBuffer(c) ==
  /\ capacity_ = c
  /\ readPos_ = 0
  /\ writePos_ = 0
  /\ buffer_ = NewBuffer(c)
  /\ last = NoCall
  /\ ref = <<>>

InitRB ==
  /\ \E c \in 1..MaxCap : InitBuffer(c)
  /\ alloc = NoSizing
  /\ starter = NoStarter
  /\ delivered = <<>>
  /\ wrapPc = "idle"
  /\ NoStreamer

\* The arrays a caller may pass with a count of len.
DataOf(len) == IF len <= 0 THEN {<<>>} ELSE [1..len -> Samples]

WriteCall ==
  /\ \E len \in (-1)..(capacity_ + MaxOver) : \E data \in DataOf(len) :
       write(FALSE, data, len)
  /\ UNCHANGED <<ref, wrapPc>>
  /\ UNCHANGED stVars

WriteNullCall ==
  /\ \E len \in (-1)..(capacity_ + MaxOver) : write(TRUE, <<>>, len)
  /\ UNCHANGED <<ref, wrapPc>>
  /\ UNCHANGED stVars

ReadCall ==
  /\ \E len \in (-1)..(capacity_ + MaxOver) : read(FALSE, len)
  /\ UNCHANGED <<ref, wrapPc>>
  /\ UNCHANGED stVars

ReadNullCall ==
  /\ \E len \in (-1)..(capacity_ + MaxOver) : read(TRUE, len)
  /\ UNCHANGED <<ref, wrapPc>>
  /\ UNCHANGED stVars

NextRB == WriteCall \/ WriteNullCall \/ ReadCall \/ ReadNullCall

SpecRB == InitRB /\ [][NextRB]_vars

(***************************************************************************)
(* SpecFifo: writes and reads on one buffer where every sample written is  *)
(* the next number of a stream 1, 2, 3, ...; ref is the stream so far.     *)
(***************************************************************************)
\* The len samples that follow the stream q.
NextSamples(q, len) == [i \in 1..Max(len, 0) |-> Len(q) + i]

FifoWrite ==
  /\ \E len \in 0..(capacity_ + MaxOver) :
       /\ Len(ref) + len <= MaxStream
       /\ write(FALSE, NextSamples(ref, len), len)
       /\ ref' = ref \o NextSamples(ref, len)
  /\ UNCHANGED wrapPc
  /\ UNCHANGED stVars

FifoRead ==
  /\ \E len \in 0..(capacity_ + MaxOver) : read(FALSE, len)
  /\ UNCHANGED <<ref, wrapPc>>
  /\ UNCHANGED stVars

NextFifo == FifoWrite \/ FifoRead

SpecFifo == InitRB /\ [][NextFifo]_vars

(***************************************************************************)
(* SpecWrap: the wraparound scenario on a fresh buffer: write capacity/2   *)
(* samples, read capacity/4, write capacity more.                          *)
(***************************************************************************)
InitWrap ==
  /\ \E c \in 1..MaxWrapCap : InitBuffer(c)
  /\ alloc = NoSizing
  /\ starter = NoStarter
  /\ delivered = <<>>
  /\ wrapPc = "start"
  /\ NoStreamer

WrapWriteHalf ==
  /\ wrapPc = "start"
  /\ \E data \in DataOf(capacity_ \div 2) :
       /\ write(FALSE, data, capacity_ \div 2)
       /\ ref' = RefWrite(ref, data, capacity_)
  /\ wrapPc' = "half"
  /\ UNCHANGED stVars

WrapReadQuarter ==
  /\ wrapPc = "half"
  /\ read(FALSE, capacity_ \div 4)
  /\ ref' = RefRead(ref, capacity_ \div 4)
  /\ wrapPc' = "quarter"
  /\ UNCHANGED stVars

WrapWriteFull ==
  /\ wrapPc = "quarter"
  /\ \E data \in DataOf(capacity_) :
       /\ write(FALSE, data, capacity_)
       /\ ref' = RefWrite(ref, data, capacity_)
  /\ wrapPc' = "done"
  /\ UNCHANGED stVars

NextWrap == WrapWriteHalf \/ WrapReadQuarter \/ WrapWriteFull

SpecWrap == InitWrap /\ [][NextWrap]_vars

(***************************************************************************)
(* Spec: one UsbAudioStreamer from connect to disconnect, driven by the    *)
(* JNI entry points on the control thread, with the audio output's         *)
(* callback thread and the USB stack running beside it.                    *)
(***************************************************************************)
\* Before connect: the in-class member initialisers, UsbAudioStreamer.h
\* lines 147-178, ringBuffer_ holding a RingBuffer(3072).
Init ==
  /\ InitBuffer(DefaultCapacity)
  /\ alloc = NoSizing
  /\ starter = NoStarter
  /\ delivered = <<>>
  /\ wrapPc = "idle"
  /\ FieldDefaults
  /\ ctl = Ctl("new", 0, "INITIAL")

Next ==
  \/ Connect
  \/ StartEnter
  \/ StartCheck
  \/ StartSubmit
  \/ StartAudio
  \/ StopCall
  \/ StopWait
  \/ StopFlag
  \/ StopFinish
  \/ StopAudio
  \/ Disconnect
  \/ DestructorRelease
  \/ DestructorFree
  \/ UsbComplete
  \/ audioPlaybackCallbackBegin
  \/ transferCallbackBegin
  \/ transferCallbackFinish
  \/ audioPlaybackCallbackEnd

Spec == Init /\ [][Next]_vars

(***************************************************************************)
(* SpecClaim: construction and destruction of a streamer on a device whose *)
(* configuration descriptor holds the streaming interface at any position  *)
(* of config_->interface[], with any bInterfaceNumber.                     *)
(***************************************************************************)
\* Positions i of resolveAudioInterface's loop and values of
\* bInterfaceNumber.
Interfaces == [index : 0..2, number : 0..2]

\* connectUsbAudioStreamingNative on such a device.
ConnectDevice ==
  /\ ctl.pc = "new"
  /\ \E iface \in Interfaces, fail \in FailPoints, kernel \in BOOLEAN,
        n \in 0..num_transfers(Negotiated) :
       /\ (fail = "detach" => kernel)
       /\ ConstructorOn(iface, fail, kernel, n)
  /\ ctl' = CtlIdle
  /\ UNCHANGED <<stopUsbAudioCapture_, streamerStats_, ringBuffer_, rnd, returned,
                 teardown, freed, rbGhost>>

NextClaim == ConnectDevice \/ Disconnect \/ DestructorRelease \/ DestructorFree

SpecClaim == Init /\ [][NextClaim]_vars

(***************************************************************************)
(* SpecRace: one UsbAudioStreamer on which the control thread calls stop()  *)
(* once while a second control thread calls start() once, statement by     *)
(* statement, with the audio output's callback thread and the USB stack    *)
(* running beside them. Neither function takes a lock or looks at the      *)
(* other.                                                                  *)
(***************************************************************************)
\* stop() has been called on the control thread.
StopBegun ==
  ctl.pc \in {"stop_wait", "stop_flag", "stop_finish", "stop_audio"} \/ returned.op = "stop"

\* What a step of the second thread's start() leaves alone besides the
\* fields it names.
StartRaceKeeps ==
  /\ UNCHANGED <<devVars, ringBuffer_, ctl, rnd, returned, teardown, freed>>
  /\ UNCHANGED <<ringVars, last, ref, wrapPc, alloc, delivered>>

\* startUsbAudioStreamingNative on the second thread: streamer_->start().
RaceStartEnter ==
  /\ starter.pc = "ready"
  /\ ctl.pc # "new"
  /\ starter' = Starter("check", "none", returned.op = "stop", FALSE, FALSE)
  /\ UNCHANGED <<state_, transfers_, usb, stopUsbAudioCapture_, streamerStats_,
                 audioStream_>>
  /\ StartRaceKeeps

\* start(), lines 253-256: the read of state_.
RaceStartCheck ==
  /\ starter.pc = "check"
  /\ IF StartRefused(state_)
       THEN starter' = Starter("returned", "none", starter.early, StopBegun, FALSE)
       ELSE starter' = [starter EXCEPT !.pc = "starting"]
  /\ UNCHANGED <<state_, transfers_, usb, stopUsbAudioCapture_, streamerStats_,
                 audioStream_>>
  /\ StartRaceKeeps

\* start(), line 257.
RaceStartStarting ==
  /\ starter.pc = "starting"
  /\ state_' = "STARTING"
  /\ starter' = [starter EXCEPT !.pc = "reset"]
  /\ UNCHANGED <<transfers_, usb, stopUsbAudioCapture_, streamerStats_, audioStream_>>
  /\ StartRaceKeeps

\* start(), lines 258-263.
RaceStartReset ==
  /\ starter.pc = "reset"
  /\ streamerStats_' = ResetStats(streamerStats_)
  /\ stopUsbAudioCapture_' = 0
  /\ starter' = [starter EXCEPT !.pc = "submit"]
  /\ UNCHANGED <<state_, transfers_, usb, audioStream_>>
  /\ StartRaceKeeps

\* start(), lines 265-268, with submitTransferRequests.
RaceStartSubmit ==
  /\ starter.pc = "submit"
  /\ \E accepted \in [DOMAIN transfers_ -> BOOLEAN] :
       /\ \A i \in DOMAIN transfers_ : accepted[i] => CanSubmit(i)
       /\ transfers_' = Submitted(transfers_, accepted)
       /\ usb' = [i \in DOMAIN usb |-> IF accepted[i] THEN "inflight" ELSE usb[i]]
       /\ IF SubmitSucceeded(transfers_')
            THEN /\ starter' = [starter EXCEPT !.pc = "player"]
                 /\ UNCHANGED state_
            ELSE /\ state_' = "ERROR"
                 /\ starter' = Starter("returned", "none", starter.early, StopBegun, FALSE)
  /\ UNCHANGED <<stopUsbAudioCapture_, streamerStats_, audioStream_>>
  /\ StartRaceKeeps

\* start(), lines 270 and 274-277: startAudioPlayer and the wait after it.
RaceStartPlayer ==
  /\ starter.pc = "player"
  /\ \E outcome \in StartAudioOutcomes :
       /\ (audioStream_ = "null" => outcome = "request_failed")
       /\ audioStream_' \in
            CASE outcome = "request_failed" -> {audioStream_}
              [] outcome = "unconfirmed" -> {audioStream_, "started"}
              [] OTHER -> {"started"}
       /\ starter' = [starter EXCEPT !.pc = "finish", !.outcome = outcome]
  /\ UNCHANGED <<state_, transfers_, usb, stopUsbAudioCapture_, streamerStats_>>
  /\ StartRaceKeeps

\* start(), lines 271-273 and 283-290: the state it ends in and its result.
RaceStartFinish ==
  /\ starter.pc = "finish"
  /\ state_' = StartedState(starter.outcome)
  /\ starter' = Starter("returned", starter.outcome, starter.early, StopBegun,
                        starter.outcome = "started")
  /\ UNCHANGED <<transfers_, usb, stopUsbAudioCapture_, streamerStats_, audioStream_>>
  /\ StartRaceKeeps

\* stopUsbAudioStreamingNative on the control thread, once.
RaceStopCall == returned.op # "stop" /\ StopCall

NextRace ==
  \/ Connect
  \/ RaceStartEnter
  \/ RaceStartCheck
  \/ RaceStartStarting
  \/ RaceStartReset
  \/ RaceStartSubmit
  \/ RaceStartPlayer
  \/ RaceStartFinish
  \/ RaceStopCall
  \/ StopWait
  \/ StopFlag
  \/ StopFinish
  \/ StopAudio
  \/ UsbComplete
  \/ audioPlaybackCallbackBegin
  \/ transferCallbackBegin
  \/ transferCallbackFinish
  \/ audioPlaybackCallbackEnd

SpecRace == Init /\ [][NextRace]_vars

(***************************************************************************)
(* SpecCallback: the transfer callbacks of one run of libusb's event       *)
(* handling, for every state the callback can read in state_ and every     *)
(* condition of the pool. The destructor and the last lines of start() and *)
(* stop() write state_ on the control thread while the render thread may   *)
(* be inside libusb_handle_events_timeout_completed, when the audio output *)
(* lets a data callback run on after its stop or close was asked for.      *)
(***************************************************************************)
\* The values the code assigns to state_: UsbAudioStreamer.h lines 36-46
\* without STOPPED, which is never assigned.
StreamerStates ==
  {"INITIAL", "READY_TO_START", "STARTING", "STARTED", "STOPPING", "ERROR",
   "DESTROYING", "DESTROYED"}

\* The states of an object that is not being destroyed.
Live == StreamerStates \ {"DESTROYING", "DESTROYED"}

\* The render thread is in libusb's event handling on a constructed
\* streamer; each slot is idle, with the USB stack, or completed with its
\* callback still to run.
InitCallback ==
  /\ InitBuffer(ring_buffer_capacity(Negotiated))
  /\ alloc = NoSizing
  /\ starter = NoStarter
  /\ delivered = <<>>
  /\ wrapPc = "idle"
  /\ state_ \in StreamerStates
  /\ usb \in [1..num_transfers(Negotiated) -> {"idle", "inflight", "done"}]
  /\ transfers_ = [i \in DOMAIN usb |-> usb[i] # "idle"]
  /\ stopUsbAudioCapture_ = 0
  /\ streamerStats_ = ZeroStats
  /\ audioStream_ = "started"
  /\ deviceHandle_ = TRUE
  /\ config_ = TRUE
  /\ context_ = "valid"
  /\ claimedInterface_ = StreamingInterface.index
  /\ detachedInterface_ = -1
  /\ ringBuffer_ = TRUE
  /\ ctl = CtlIdle
  /\ rnd = Rnd("pump", 0, "none", FALSE, NoBlock)
  /\ returned = Ret("none", FALSE, "INITIAL")
  /\ teardown = <<>>
  /\ freed = [done |-> FALSE, flags |-> <<>>, usb |-> <<>>]
  /\ built = "none"
  /\ claimedNumber = StreamingInterface.number

NextCallback ==
  \/ UsbComplete
  \/ transferCallbackBegin
  \/ transferCallbackFinish

SpecCallback == InitCallback /\ [][NextCallback]_vars

(***************************************************************************)
(* SpecStop: stop() called on a streamer whose audio output runs, with the  *)
(* pool in any condition, the render thread and the USB stack running      *)
(* beside it or not at all. Each step of stop() is taken in the end: the   *)
(* wait_for of line 387 has a timeout of 100 ms and the wait in            *)
(* stopAudioPlayer one of 500 ms. Nothing is asked of the USB stack or of  *)
(* the render thread: a slot may stay in flight forever.                   *)
(***************************************************************************)
\* With one control thread no call is under way when stop() is called, and
\* the audio output runs in STARTED, or in ERROR after a start() or stop()
\* that it did not confirm.
InitStop == InitCallback /\ state_ \in {"STARTED", "ERROR"}

NextStop ==
  \/ StopCall
  \/ StopWait
  \/ StopFlag
  \/ StopFinish
  \/ StopAudio
  \/ UsbComplete
  \/ audioPlaybackCallbackBegin
  \/ transferCallbackBegin
  \/ transferCallbackFinish
  \/ audioPlaybackCallbackEnd

\* A step of stop() after its first line.
StopStep == StopWait \/ StopFlag \/ StopFinish \/ StopAudio

SpecStop == InitStop /\ [][NextStop]_vars /\ WF_vars(StopStep)

(***************************************************************************)
(* SpecSizing: allocateTransferRequests' arithmetic on the parameters a    *)
(* device and an audio output can negotiate.                               *)
(***************************************************************************)
\* maxPacketSize_, framesPerBurst_, bufferCapacityInFrames_, subFrameSize_
\* and channelCount_ as explored; 192, 192, 960, 2, 2 is a 48 kHz stereo
\* 16-bit device on a 192-frame burst.
PacketSizes == {1, 2, 3, 192}
BurstSizes == {1, 2, 3, 192}
BufferCapacities == {1, 2, 5, 960}
SubFrameSizes == {1, 2}
ChannelCounts == {1, 2}
Parameters ==
  [maxPacketSize : PacketSizes, subFrameSize : SubFrameSizes,
   channelCount : ChannelCounts, framesPerBurst : BurstSizes,
   bufferCapacityInFrames : BufferCapacities]

InitSizing ==
  /\ InitBuffer(1)
  /\ wrapPc = "idle"
  /\ NoStreamer
  /\ \E p \in Parameters : alloc = [pc |-> "negotiated", p |-> p]
  /\ starter = NoStarter
  /\ delivered = <<>>

\* allocateTransferRequests, lines 330-351: the sizes it computes and the
\* ring buffer it leaves. A negative int quotient becomes a size_t beyond
\* any allocation: new T[capacity_] (RingBuffer.h, line 31) throws and the
\* process terminates with the old buffer in place.
Allocate ==
  /\ alloc.pc = "negotiated"
  /\ alloc' = [pc |-> IF ring_buffer_capacity(alloc.p) < 0
                        THEN "terminated" ELSE "allocated",
               p |-> alloc.p,
               num_packets |-> num_packets(alloc.p),
               buffer_size |-> buffer_size(alloc.p),
               num_transfers |-> num_transfers(alloc.p),
               ring_buffer_capacity |-> ring_buffer_capacity(alloc.p)]
  /\ IF capacity_ # ring_buffer_capacity(alloc.p) /\ ring_buffer_capacity(alloc.p) >= 0
       THEN SetRing(Ring(ring_buffer_capacity(alloc.p), 0, 0,
                         NewBuffer(ring_buffer_capacity(alloc.p))))
       ELSE UNCHANGED ringVars
  /\ UNCHANGED <<last, ref, wrapPc, starter, delivered>>
  /\ UNCHANGED <<state_, transfers_, usb, stopUsbAudioCapture_, streamerStats_,
                 audioStream_, devVars, ringBuffer_, ctl, rnd, returned,
                 teardown, freed>>

NextSizing == Allocate

SpecSizing == InitSizing /\ [][NextSizing]_vars

\* SpecSizingWide: the same arithmetic toward the top of the range of the
\* fields' types: maxPacketSize_ is a uint16_t, subFrameSize_ and
\* channelCount_ are uint8_t, framesPerBurst_ and bufferCapacityInFrames_
\* are int32_t.
WidePacketSizes == {32768, 65535}
WideBurstSizes == {1, 2}
WideBufferCapacities == {65536, 131072, 196608}
WideSubFrameSizes == {1, 2, 3, 4}
WideChannelCounts == {1, 2}
WideParameters ==
  [maxPacketSize : WidePacketSizes, subFrameSize : WideSubFrameSizes,
   channelCount : WideChannelCounts, framesPerBurst : WideBurstSizes,
   bufferCapacityInFrames : WideBufferCapacities]

InitSizingWide ==
  /\ InitBuffer(1)
  /\ wrapPc = "idle"
  /\ NoStreamer
  /\ \E p \in WideParameters : alloc = [pc |-> "negotiated", p |-> p]
  /\ starter = NoStarter
  /\ delivered = <<>>

SpecSizingWide == InitSizingWide /\ [][NextSizing]_vars

(***************************************************************************)
(* RingBuffer claims.                                                      *)
(***************************************************************************)
\* C1: a write of n samples, 1 <= n <= capacity, into an empty buffer,
\* followed at once by a read of n samples, returns n and yields exactly the
\* written samples in order.
C1_RoundTrip ==
  [][(/\ last.op = "write" /\ ~last.null /\ last.avail = 0
      /\ last.len >= 1 /\ last.len <= capacity_
      /\ last'.op = "read" /\ ~last'.null /\ last'.len = last.len)
     => (last'.ret = last.len /\ last'.out = last.data)]_vars

\* C2: after a write of more than capacity samples the stored content (what
\* size() reports and read() returns) is the last capacity samples of the
\* data, in order.
C2_OversizedWrite ==
  (last.op = "write" /\ ~last.null /\ last.len > capacity_)
    => /\ Size = capacity_
       /\ Content = SubSeq(last.data, last.len - capacity_ + 1, last.len)

\* C3: after any sequence of writes and reads, size() is the number of samples
\* written minus the number read, saturated to [0, capacity]: every write of
\* len samples raises size() by len, up to capacity, and every read lowers it
\* by the number of samples it returns.
C3_SizeAccounting ==
  [][/\ (last'.op = "write" /\ ~last'.null /\ last'.len >= 1)
          => Size' = Min(capacity_, Size + last'.len)
     /\ (last'.op = "read") => Size' = Size - last'.ret]_vars

\* C4: at the end of the wraparound scenario the readable content (size and
\* sample sequence) is that of the reference queue.
C4_WrapMatchesReference ==
  wrapPc = "done" => (Size = Len(ref) /\ Content = ref)

\* C5: a write with a null pointer or a count <= 0, and a read with a null
\* pointer, a count <= 0 or an empty buffer, return 0 and leave both cursors
\* and the storage unchanged.
C5_NoopRequests ==
  [][(\/ (last'.op = "write" /\ (last'.null \/ last'.len <= 0))
      \/ (last'.op = "read" /\ (last'.null \/ last'.len <= 0 \/ Size = 0)))
     => (last'.ret = 0 /\ UNCHANGED <<readPos_, writePos_, buffer_>>)]_vars

\* C5 witness: a write with a count <= 0 was made on a buffer holding samples.
C5_Witness ==
  last.op = "write" /\ ~last.null /\ last.len <= 0 /\ last.ret = 0 /\ Size > 0

\* C6: a write of len samples into a buffer holding size samples, with
\* size + len > capacity, drops only the oldest samples: the written samples
\* are the newest of the content afterwards. Stated for len < capacity.
C6_OverwriteOldest ==
  (/\ last.op = "write" /\ ~last.null
   /\ last.len >= 1 /\ last.len < capacity_
   /\ last.avail + last.len > capacity_)
    => /\ Size >= last.len
       /\ SubSeq(Content, Size - last.len + 1, Size) = last.data

\* C7: a read of count >= 1 from a non-empty buffer copies min(count, size())
\* samples starting at the read cursor, across the wrap boundary when needed,
\* advances the read cursor by that amount modulo capacity, leaves the write
\* cursor (and the storage) unchanged and returns that amount.
C7_Read ==
  [][(last'.op = "read" /\ ~last'.null /\ last'.len >= 1 /\ Size > 0)
     => LET n == Min(last'.len, Size)
        IN /\ last'.ret = n
           /\ readPos_' = (readPos_ + n) % capacity_
           /\ writePos_' = writePos_
           /\ buffer_' = buffer_
           /\ Len(last'.out) = last'.len
           /\ \A i \in 1..last'.len :
                last'.out[i] = IF i <= n
                                 THEN buffer_[(readPos_ + i - 1) % capacity_]
                                 ELSE Poison]_vars

\* C7 witness: a read returned at least 2 samples that lay across the wrap
\* boundary (the read cursor wrapped and both copies were non-empty).
C7_Witness ==
  /\ last.op = "read" /\ last.ret >= 2
  /\ readPos_ - last.ret < 0 /\ readPos_ > 0


(***************************************************************************)
(* UsbAudioStreamer claims.                                                *)
(***************************************************************************)
\* C8: start() called in any state other than READY_TO_START returns false
\* and changes nothing: no step of the call changes the state, a slot's
\* in-flight flag, the statistics or the cancellation flag, and none hands a
\* transfer to the USB stack.
C8_StartRefused ==
  [][(/\ ctl' # ctl
      /\ (ctl.pc = "start" \/ ctl'.pc = "start")
      /\ state_ # "READY_TO_START")
     => (/\ UNCHANGED <<state_, transfers_, usb, streamerStats_, stopUsbAudioCapture_>>
         /\ (ctl.pc = "start" =>
               /\ ctl'.pc = "idle"
               /\ returned' = Ret("start", FALSE, state_)))]_vars

\* start() was refused in STARTED, with a slot in flight and callbacks counted.
C8_Witness ==
  /\ ctl.pc = "idle"
  /\ returned = Ret("start", FALSE, "STARTED")
  /\ state_ = "STARTED"
  /\ hasActiveTransfers(transfers_)
  /\ streamerStats_.usb_cb_counter > 0

\* C9: whenever stop() returns, from whatever state it was called, the state
\* is READY_TO_START or ERROR, never STARTING, STARTED or STOPPING.
C9_StopEnds ==
  [][(ctl.pc \in {"stop_finish", "stop_audio"} /\ ctl'.pc = "idle")
     => (/\ returned'.op = "stop"
         /\ state_' \in {"READY_TO_START", "ERROR"})]_vars

\* stop() called in STARTED used up its waits with a slot still in flight.
C9_Witness ==
  /\ ctl.pc = "idle"
  /\ returned = Ret("stop", FALSE, "STARTED")
  /\ state_ = "ERROR"
  /\ hasActiveTransfers(transfers_)

\* C10: no active USB transfer outlives the native object: when destruction
\* has freed the transfer slots, none of them was in flight.
C10_NoTransferOutlives ==
  freed.done => \A i \in DOMAIN freed.flags : ~freed.flags[i]


\* C11: start() called in READY_TO_START ends in exactly one of two ways: it
\* returns true with state STARTED, or it returns false with state ERROR,
\* after no slot was accepted or the audio output did not start; it never
\* returns with state STARTING.
C11_StartEnds ==
  [][(ctl.pc \in {"start_submit", "start_audio"} /\ ctl'.pc = "idle")
     => (/\ returned'.op = "start"
         /\ returned'.from = "READY_TO_START"
         /\ \/ returned'.val /\ state_' = "STARTED" /\ audioStream_' = "started"
            \/ ~returned'.val /\ state_' = "ERROR"
         /\ (ctl.pc = "start_submit" => ~hasActiveTransfers(transfers_')))]_vars

\* start() submitted a slot, the audio output did not start, and it returned
\* false with state ERROR.
C11_Witness ==
  /\ ctl.pc = "idle"
  /\ returned = Ret("start", FALSE, "READY_TO_START")
  /\ state_ = "ERROR"
  /\ hasActiveTransfers(transfers_)

\* C12: stop() returns false and sets ERROR if a slot is still in flight at
\* its final check or the audio output does not confirm the stopped state;
\* otherwise it returns true and sets READY_TO_START, and it returns true
\* only when no slot is in flight.
C12_StopResult ==
  [][(ctl.pc \in {"stop_finish", "stop_audio"} /\ ctl'.pc = "idle")
     => IF returned'.val
          THEN state_' = "READY_TO_START" /\ ~hasActiveTransfers(transfers_')
          ELSE state_' = "ERROR"]_vars


\* The constructor returned early: one of its steps failed.
ConstructionFailed == built \notin {"pending", "none"}

\* C13: construction failure lands in ERROR: when a step of the constructor
\* has failed, the state of the object it leaves, before any other call on
\* it, is ERROR.
C13_FailedConstructionIsError ==
  (ConstructionFailed /\ ctl.pc = "idle" /\ returned.op = "none")
    => state_ = "ERROR"

Lifecycle ==
  { <<"INITIAL", "READY_TO_START">>, <<"READY_TO_START", "STARTING">>,
    <<"STARTING", "STARTED">>, <<"STARTED", "STOPPING">>,
    <<"STOPPING", "READY_TO_START">>, <<"DESTROYING", "DESTROYED">> }
  \cup { <<s, "ERROR">> : s \in Live \ {"ERROR"} }
  \cup { <<s, "DESTROYING">> : s \in Live }

\* C16: every state change follows the declared lifecycle; in particular
\* STOPPING is entered only from STARTED and ERROR is left only by
\* destruction.
C16_Lifecycle ==
  [][state_' # state_ => <<state_, state_'>> \in Lifecycle]_vars


\* The least number of parts of size b that hold a.
Ceil(a, b) == CHOOSE k \in 0..a : k * b >= a /\ (k - 1) * b < a

CallbackReturns == rnd.pc \in {"pump", "read"} /\ rnd'.pc = "idle"

\* C18: underrun policy: a render request for k samples made when the buffer
\* holds fewer than k fills the whole block, exactly the requested byte
\* length, with silence, reads nothing, and leaves the read cursor and the
\* buffered sample count unchanged.
C18_Underrun ==
  [][(CallbackReturns /\ Size < Negotiated.channelCount * rnd'.out.numFrames)
     => (/\ 2 * Len(rnd'.out.data) =
              rnd'.out.numFrames * Negotiated.channelCount * Negotiated.subFrameSize
         /\ \A k \in DOMAIN rnd'.out.data : rnd'.out.data[k] = 0
         /\ UNCHANGED <<readPos_, writePos_, buffer_, capacity_>>
         /\ Size' = Size)]_vars

\* Two samples were asked for while the buffer held one: the block is two
\* samples of silence and the one sample is still buffered.
C18_Witness ==
  /\ rnd.pc = "idle"
  /\ rnd.out = Block(2, <<0, 0>>)
  /\ Size = 1


\* libusb's event handling runs the transfer callback of slot i.
CompletionOf(i) == rnd.pc = "pump" /\ usb[i] = "done" /\ usb'[i] = "idle"

\* C19: device loss in a completion: a completion whose status is device-lost
\* returns without resubmitting its slot, which ends not in flight, writes
\* nothing into the ring buffer and changes no statistics, in every state.
C19_DeviceLost ==
  [][\A i \in DOMAIN usb :
       (CompletionOf(i) /\ rnd'.status = "LIBUSB_TRANSFER_NO_DEVICE")
         => (/\ rnd'.pc = "pump"
             /\ ~transfers_'[i]
             /\ UNCHANGED <<capacity_, readPos_, writePos_, buffer_>>
             /\ UNCHANGED streamerStats_
             /\ UNCHANGED state_)]_vars

\* In STARTED, with bytes counted, a completion came with the device lost.
C19_Witness ==
  /\ rnd.pc = "pump"
  /\ rnd.status = "LIBUSB_TRANSFER_NO_DEVICE"
  /\ state_ = "STARTED"
  /\ streamerStats_.total_bytes > 0
  /\ ~hasActiveTransfers(transfers_)


\* C20: the render consumer never fails its caller: every invocation of the
\* audio data callback, in every state and with or without an underrun,
\* returns the continue result, and no step of it changes the state.
C20_RenderContinues ==
  [][/\ CallbackReturns => rnd'.out.result = "AAUDIO_CALLBACK_RESULT_CONTINUE"
     /\ rnd' # rnd => state_' = state_]_vars

\* An audio callback that ran while the state was ERROR met an underrun and
\* returned.
C20_Witness ==
  /\ rnd.pc = "idle"
  /\ state_ = "ERROR"
  /\ rnd.out = Block(2, <<0, 0>>)
  /\ streamerStats_.player_cb_counter > 0


\* start() and stop() ran at the same time: neither had returned when the
\* other was called, and both have returned.
BothReturned ==
  /\ starter.pc = "returned"
  /\ ~starter.early
  /\ starter.begun
  /\ ctl.pc = "idle"
  /\ returned.op = "stop"

\* C21: when start() and stop() are issued concurrently from two control
\* threads and both have returned, the state is READY_TO_START, STARTED or
\* ERROR, and if it is STARTED the cancellation flag is clear and the audio
\* output has not been stopped by that stop().
C21_ConcurrentStartStop ==
  BothReturned =>
    /\ state_ \in {"READY_TO_START", "STARTED", "ERROR"}
    /\ state_ = "STARTED" => (stopUsbAudioCapture_ = 0 /\ audioStream_ # "stopped")


\* start() runs submitTransferRequests.
SubmitsPool == ctl.pc = "start_submit" /\ ctl' # ctl

\* The USB stack took slot i in this step.
Accepted(i) == usb[i] # "inflight" /\ usb'[i] = "inflight"

\* C22: batch submission: submitting the pool sets each slot's in-flight flag
\* to whether the USB stack accepted that slot, and reports success if and
\* only if at least one slot was accepted; when no slot is accepted, with an
\* empty pool too, the state becomes ERROR.
C22_BatchSubmission ==
  [][SubmitsPool =>
       /\ DOMAIN transfers_' = DOMAIN transfers_
       /\ \A i \in DOMAIN transfers_ : transfers_'[i] = Accepted(i)
       /\ IF \E i \in DOMAIN transfers_ : Accepted(i)
            THEN ctl'.pc = "start_audio" /\ state_' = state_ /\ returned' = returned
            ELSE /\ state_' = "ERROR"
                 /\ ctl'.pc = "idle"
                 /\ returned' = Ret("start", FALSE, "READY_TO_START")]_vars

\* A pool of two was submitted and the USB stack took the first slot only:
\* start() goes on to the audio output.
C22_Witness ==
  /\ ctl.pc = "start_audio"
  /\ transfers_ = <<TRUE, FALSE>>
  /\ usb = <<"inflight", "idle">>


\* C23: a completion callback that observes state STOPPING, and not the
\* device-lost status, never resubmits its slot and writes nothing into the
\* ring buffer; if no other slot remains in flight it signals the condition
\* variable the control thread waits on, and if another slot is in flight it
\* does not signal.
C23_CompletionWhileStopping ==
  [][\A i \in DOMAIN usb :
       (CompletionOf(i) /\ state_ = "STOPPING" /\ rnd'.status # "LIBUSB_TRANSFER_NO_DEVICE")
         => (/\ rnd'.pc = "pump"
             /\ ~transfers_'[i]
             /\ usb'[i] = "idle"
             /\ \A j \in DOMAIN usb \ {i} : transfers_'[j] = transfers_[j] /\ usb'[j] = usb[j]
             /\ UNCHANGED <<capacity_, readPos_, writePos_, buffer_>>
             /\ rnd'.notified = ~(\E j \in DOMAIN transfers_ \ {i} : transfers_[j]))]_vars

\* stop() is waiting; no completion has been counted since start(), and the
\* completion of the first slot came while the second was still in flight:
\* nothing was signalled.
C23_Witness ==
  /\ ctl.pc = "stop_wait"
  /\ state_ = "STOPPING"
  /\ rnd.pc = "pump"
  /\ rnd.status = "other"
  /\ streamerStats_.usb_cb_counter = 0
  /\ ~rnd.notified
  /\ transfers_ = <<FALSE, TRUE>>


\* C24: a completion callback that observes state DESTROYING or DESTROYED
\* returns without resubmitting its slot, without writing into the ring
\* buffer and without updating statistics.
C24_CompletionWhileDestroying ==
  [][\A i \in DOMAIN usb :
       (CompletionOf(i) /\ state_ \in {"DESTROYING", "DESTROYED"})
         => (/\ rnd'.pc = "pump"
             /\ ~transfers_'[i]
             /\ usb'[i] = "idle"
             /\ ~rnd'.notified
             /\ UNCHANGED <<capacity_, readPos_, writePos_, buffer_>>
             /\ UNCHANGED streamerStats_)]_vars

\* The callback of the first slot ran with its transfer in order while the
\* state was DESTROYING, the second slot still in flight.
C24_Witness ==
  /\ state_ = "DESTROYING"
  /\ rnd.pc = "pump"
  /\ rnd.status = "other"
  /\ transfers_ = <<FALSE, TRUE>>
  /\ usb = <<"idle", "inflight">>


\* Slot i has been submitted to the USB stack with success and its completion
\* callback has not yet run.
WithUsbStack(i) == usb[i] \in {"inflight", "done"}

\* C25: in-flight flag accuracy: in every reachable state a slot's in-flight
\* flag is true if and only if the slot has been successfully submitted to
\* the USB stack and its completion callback has not yet run; no slot is
\* ever submitted while its flag is already true.
C25_FlagAccuracy ==
  /\ [](\A i \in DOMAIN transfers_ : transfers_[i] <=> WithUsbStack(i))
  /\ [][SubmitsPool => \A i \in DOMAIN transfers_ : ~transfers_[i]]_vars


\* The packets of a transfer whose status is completed, in packet order.
Completed(packets) == SelectSeq(packets, LAMBDA pack : pack.status = "completed")

\* The payloads of packets one after the other, and their bytes.
RECURSIVE Payloads(_)
Payloads(packets) ==
  IF packets = <<>> THEN <<>> ELSE Head(packets).data \o Payloads(Tail(packets))
RECURSIVE Bytes(_)
Bytes(packets) ==
  IF packets = <<>> THEN 0 ELSE Head(packets).actual_length + Bytes(Tail(packets))

\* The ring after one write per payload.
RECURSIVE WriteEach(_, _)
WriteEach(rb, packets) ==
  IF packets = <<>> THEN rb
  ELSE WriteEach(WriteOn(rb, FALSE, Head(packets).data, Len(Head(packets).data)).ring,
                 Tail(packets))

\* A transfer callback that went on to the packets returns.
CompletionProcessed == rnd.pc = "cb" /\ rnd'.pc = "pump"

\* C26: payload copy in a completion processed in a capturing state: the
\* samples written into the ring buffer are exactly the payloads of the
\* packets whose status is completed, in packet order; packets with any other
\* status contribute no samples and no bytes to the byte total.
C26_PayloadCopy ==
  [][CompletionProcessed =>
       LET good == Completed(delivered')
           counted == IF streamerStats_.t0_10_s THEN streamerStats_.total_bytes ELSE 0
       IN /\ ThisRing' = WriteEach(ThisRing, good)
          /\ (Size + Len(Payloads(good)) < capacity_
                => Content' = Content \o Payloads(good))
          /\ streamerStats_'.total_bytes = counted + Bytes(good)]_vars

\* A transfer whose first packet failed was processed: the sample of its
\* second packet alone is buffered and 2 bytes are counted.
C26_Witness ==
  /\ rnd.pc = "pump"
  /\ delivered = <<Packet("error", <<1>>), Packet("completed", <<2>>)>>
  /\ Content = <<2>>
  /\ streamerStats_.total_bytes = 2


\* C27: transfer failures are never propagated: no completion callback ever
\* changes the streamer state, whatever the packet statuses; a rejected
\* resubmission and a byte total above maxPacketSize * packetCount only
\* leave that slot not in flight.
C27_FailuresStayLocal ==
  [][/\ (\E i \in DOMAIN usb : CompletionOf(i)) => state_' = state_
     /\ CompletionProcessed =>
          /\ state_' = state_
          /\ stopUsbAudioCapture_' = stopUsbAudioCapture_
          /\ ctl' = ctl
          /\ \A j \in DOMAIN transfers_ \ {rnd.slot} :
               transfers_'[j] = transfers_[j] /\ usb'[j] = usb[j]
          /\ transfers_'[rnd.slot] = (usb'[rnd.slot] = "inflight")
          /\ ~transfers_'[rnd.slot] => usb'[rnd.slot] = usb[rnd.slot]
          /\ Bytes(Completed(delivered')) > Negotiated.maxPacketSize * Len(delivered')
               => ~transfers_'[rnd.slot]]_vars

\* In STARTED the one slot in flight brought more bytes than its packets can
\* hold: it is left idle and the state is still STARTED.
C27_Witness ==
  /\ rnd.pc = "pump"
  /\ state_ = "STARTED"
  /\ delivered = <<Packet("completed", <<1, 2>>), Packet("completed", <<2, 1>>)>>
  /\ ~hasActiveTransfers(transfers_)
  /\ \A i \in DOMAIN usb : usb[i] = "idle"


\* The step named when the resource it releases is there, nothing otherwise.
When(present, step) == IF present THEN <<step>> ELSE <<>>

\* The teardown steps for what the constructor got hold of before it failed
\* at fail, with the interfaces it claimed and detached, in the declared
\* order.
DeclaredTeardown(fail, claimed, detached) ==
  When(Past(fail, "builder"), "close_audio")
  \o When(Past(fail, "wrap") /\ claimed # -1, "release_interface")
  \o When(detached # -1, "attach_kernel_driver")
  \o When(Past(fail, "wrap"), "close_device")
  \o <<"free_transfers">>
  \o When(Past(fail, "config"), "free_config")
  \o When(Past(fail, "init"), "exit_context")
  \o <<"release_ring">>

\* C28: teardown order: destruction closes the audio output, releases the
\* claimed USB interface, reattaches the kernel driver if one was detached,
\* closes the device handle, frees all transfer slots, frees the
\* configuration descriptor, exits the USB context and releases the ring
\* buffer, in this order, each step skipped when its resource is absent; the
\* state is DESTROYING before any USB resource is released and DESTROYED only
\* after all of them.
C28_TeardownOrder ==
  /\ ctl.pc = "gone" =>
       /\ [i \in DOMAIN teardown |-> teardown[i].step]
            = DeclaredTeardown(built, claimedInterface_, detachedInterface_)
       /\ state_ = "DESTROYED"
  /\ \A i \in DOMAIN teardown :
       /\ teardown[i].step # "close_audio" => teardown[i].state = "DESTROYING"
       /\ teardown[i].step = "release_interface" => teardown[i].arg = claimedInterface_
       /\ teardown[i].step = "attach_kernel_driver" => teardown[i].arg = detachedInterface_
  /\ ctl.pc \in {"release", "free"} => state_ = "DESTROYING"


\* The control thread is inside stop().
InStop == ctl.pc \in {"stop_wait", "stop_flag", "stop_finish", "stop_audio"}

\* C29: stop() always terminates: its drain loop performs at most 5 bounded
\* waits even if some slot stays in flight forever, after which stop()
\* reports failure with state ERROR instead of waiting further.
C29_StopTerminates ==
  /\ [][(ctl.pc = "stop_wait" /\ ctl'.pc = "stop_wait" /\ ctl' # ctl)
          => (ctl'.tries = ctl.tries + 1 /\ ctl'.tries <= 5)]_vars
  /\ [][(ctl.pc = "stop_finish" /\ ctl' # ctl /\ hasActiveTransfers(transfers_))
          => (/\ ctl'.pc = "idle"
              /\ state_' = "ERROR"
              /\ returned' = Ret("stop", FALSE, ctl.from))]_vars
  /\ InStop ~> (ctl.pc = "idle" /\ returned.op = "stop")

\* stop() has waited five times and left its loop with a slot that the USB
\* stack still holds.
C29_Witness ==
  /\ ctl.pc = "stop_finish"
  /\ ctl.tries = 6
  /\ \E i \in DOMAIN usb : transfers_[i] /\ usb[i] = "inflight"


\* A step of start() or stop() on the control thread, between construction
\* and destruction.
ControlStep == ctl' # ctl /\ ctl.pc \notin {"new", "release", "free", "gone"}

\* C30: single-context ownership: between construction and destruction the
\* ring buffer, cursors and samples, and every slot's in-flight flag are
\* mutated only by steps running in the render-request context, the audio
\* callback and the completions it pumps; no step of start() or stop() in
\* the control context writes them.
C30_SingleContext ==
  [][ControlStep
       => UNCHANGED <<transfers_, capacity_, readPos_, writePos_, buffer_>>]_vars


\* C31: the ring capacity is never zero: the default buffer has capacity
\* 3072, and for all positive maxPacketSize, framesPerBurst,
\* bufferCapacityInFrames, subFrameSize and channelCount the capacity
\* computed at allocation is at least 1.
C31_CapacityNeverZero ==
  /\ DefaultCapacity >= 1
  /\ alloc.pc = "allocated" =>
       /\ alloc.ring_buffer_capacity >= 1
       /\ capacity_ >= 1


\* C32: RingBuffer cursor bounds: after any sequence of writes and reads both
\* cursors lie in [0, capacity) and size() lies in [0, capacity - 1]; the
\* buffer never reports capacity buffered samples.
C32_CursorBounds ==
  /\ readPos_ \in 0..(capacity_ - 1)
  /\ writePos_ \in 0..(capacity_ - 1)
  /\ Size \in 0..(capacity_ - 1)
  /\ Size # capacity_
  /\ last.op \in {"write", "read"} => last.avail \in 0..(capacity_ - 1)

\* A write of capacity samples has moved the write cursor once around the
\* storage, away from index 0, and size() reports 0.
C32_Witness ==
  /\ last.op = "write"
  /\ last.ret = capacity_
  /\ capacity_ > 1
  /\ readPos_ > 0
  /\ Size = 0


\* One memcpy stays inside a storage of c elements.
InStorage(s, c) == s.n >= 0 /\ s.bufAt >= 0 /\ s.bufAt + s.n <= c
RECURSIVE Total(_)
Total(slices) == IF slices = <<>> THEN 0 ELSE Head(slices).n + Total(Tail(slices))

\* C33: RingBuffer copies stay in bounds: in every write and read each copied
\* slice has a non-negative length and touches only storage indices in
\* [0, capacity), and the slice lengths sum to the (truncated) count being
\* transferred, for every cursor position and every count.
C33_CopiesInBounds ==
  \A len \in (-1)..(capacity_ + MaxOver) :
    /\ ~WriteIgnored(FALSE, len) =>
         LET n == TruncLen(len, capacity_)
             slices == WriteSlices(writePos_, n, capacity_)
         IN /\ \A i \in DOMAIN slices : InStorage(slices[i], capacity_)
            /\ Total(slices) = n
            /\ WriteOn(ThisRing, FALSE, [j \in 1..len |-> 1], len).ret = n
    /\ ~ReadIgnored(FALSE, len, Size) =>
         LET to_copy == Min(len, Size)
             slices == ReadSlices(readPos_, to_copy, capacity_)
         IN /\ \A i \in DOMAIN slices : InStorage(slices[i], capacity_)
            /\ Total(slices) = to_copy
            /\ ReadOn(ThisRing, FALSE, len).ret = to_copy

\* A write was copied in two non-empty slices: its end lies after index 0
\* and fewer than its count behind it.
C33_Witness ==
  /\ last.op = "write"
  /\ 0 < writePos_
  /\ writePos_ < last.ret


\* q ends with the sequence t.
IsSuffix(t, q) == Len(t) <= Len(q) /\ t = SubSeq(q, Len(q) - Len(t) + 1, Len(q))

\* C34: RingBuffer FIFO order: after any sequence of writes and reads the
\* samples between the read and the write cursor are a contiguous suffix of
\* the stream of written samples in write order; every read returns the
\* oldest of them in order and removes what it returned, and no write brings
\* back a sample older than the ones held, so no sample is returned twice
\* or out of order.
C34_FifoOrder ==
  /\ [](IsSuffix(Content, ref))
  /\ [][/\ last'.op = "read" =>
            /\ SubSeq(last'.out, 1, last'.ret) = SubSeq(Content, 1, last'.ret)
            /\ Content' = SubSeq(Content, last'.ret + 1, Len(Content))
        /\ last'.op = "write" => IsSuffix(Content', Content \o last'.data)]_vars

\* A read returned two samples from the two ends of the storage, after
\* earlier reads had moved the read cursor.
C34_Witness ==
  /\ last.op = "read"
  /\ last.ret >= 2
  /\ 0 < readPos_
  /\ readPos_ < last.ret
  /\ last.out[1] > 1


\* C35: whenever the state is READY_TO_START no transfer slot is in flight:
\* no slot is with the USB stack and no slot's isSubmitted is set, also when
\* a completion callback of the render thread interleaves with stop().
C35_ReadyMeansIdle ==
  state_ = "READY_TO_START" =>
    \A i \in DOMAIN transfers_ : usb[i] # "inflight" /\ ~transfers_[i]


\* The slots the USB stack holds and has not completed.
InFlight(stack) == Cardinality({i \in DOMAIN stack : stack[i] = "inflight"})

\* C36: no submission during stopping: from the moment stop() has set
\* STOPPING until stop() returns no slot is submitted or resubmitted, i.e.
\* the number of in-flight slots never increases, also for a completion
\* callback that read the state before stop() changed it.
C36_NoSubmissionWhileStopping ==
  [][InStop => InFlight(usb') <= InFlight(usb)]_vars


\* C37: interface claim/release pairing: the interface number released at
\* destruction is the interface number that construction claimed, for every
\* configuration descriptor, also one where the interface's position in the
\* descriptor differs from its interface number, and an interface is
\* released only if one was claimed.
C37_ClaimReleasePairing ==
  \A i \in DOMAIN teardown :
    teardown[i].step = "release_interface" =>
      claimedNumber # -1 /\ teardown[i].arg = claimedNumber


=============================================================================
